---- MODULE Spec2Model ----
(***************************************************************************)
(* Model of src/main.py, the Streamlit front-end of the peer-feedback      *)
(* assistants.  The script is executed from top to bottom once per widget  *)
(* event of a browser session; st.session_state is private to a session,   *)
(* the module attribute openai.api_key is shared by every session of the   *)
(* server process.  Temperatures are written in hundredths (0.7 is 70).    *)
(* The warning sign that opens the two fixed strings of _chat is written   *)
(* "[warning]" because the module is kept in ASCII.                        *)
(***************************************************************************)
EXTENDS Integers, Sequences, FiniteSets, TLC

VARIABLES
    secrets,          \* st.secrets, the deployer's configuration
    api_key,          \* openai.api_key, one per server process
    keys,             \* keys[s]: the keys present in st.session_state of s
    openai_api_key,   \* st.session_state.openai_api_key
    page,             \* st.session_state.page
    messages,         \* st.session_state.messages, the conversation log
    function_choice,  \* st.session_state.function_choice
    temperature,      \* st.session_state.temperature, in hundredths
    model_choice,     \* st.session_state.model_choice
    api_input,        \* value of the sidebar text input of s
    start_disabled,   \* the Start button of s as last rendered
    pc,               \* position of the script run of s
    event,            \* the widget event the current script run serves
    sent,             \* message list handed to _chat in the current run
    used_key,         \* openai.api_key when that call was issued
    api_calls,        \* ChatCompletion.create calls of the current run
    result,           \* what the external service did in the current run
    after_reset,      \* "no", or what Reset did since the last submission
    prev_choice       \* function_choice that the last Start replaced

vars == <<secrets, api_key, keys, openai_api_key, page, messages,
          function_choice, temperature, model_choice, api_input,
          start_disabled, pc, event, sent, used_key, api_calls, result,
          after_reset, prev_choice>>

session_vars == <<keys, openai_api_key, page, messages, function_choice,
                  temperature, model_choice>>

history_vars == <<sent, used_key, api_calls, result>>

---------------------------------------------------------------------------
(* Bounds and input sets *)

MaxExchanges == 2

Sessions == {"A", "B"}

Users == {"A"}

PastedKey(s) == "sk-user-" \o s

(* st.secrets either has no OPENAI_API_KEY or holds a key, a non-empty      *)
(* string. *)
SecretsChoices == {[k \in {} |-> ""], [k \in {"OPENAI_API_KEY"} |-> "sk-deployer"]}

Texts == {"Please review my draft.", "Thanks!"}

Results == {[ok |-> TRUE, text |-> "Here is my feedback."],
            [ok |-> FALSE, text |-> "Rate limit reached"]}

TempInputs == {0, 100}

---------------------------------------------------------------------------
(* Constants of the program *)

AVAILABLE_MODELS == <<"gpt-4.1", "gpt-4o", "gpt-4o-mini", "gpt-3.5-turbo-0125">>

ModelOptions == {AVAILABLE_MODELS[i] : i \in DOMAIN AVAILABLE_MODELS}

None == "None"

DefaultTemperature == 70

SliderMin == 0

SliderMax == 100

SliderStep == 5

SliderValues == {t \in SliderMin..SliderMax : (t - SliderMin) % SliderStep = 0}

MissingKeyWarning == "[warning] Please provide an OpenAI API key in the sidebar."

ErrorPrefix == "[warning] Error querying OpenAI: "

Turn(r, c) == [role |-> r, content |-> c]

---------------------------------------------------------------------------
(* Route functions.  Each returns the list it hands to _chat (sent) and    *)
(* the caller's list as the call leaves it (log).                          *)

call_writeup_model(msgs) ==
    [sent |-> msgs, log |-> msgs]

(* Faulty variant: the prefix is inserted into the caller's list. *)
call_self_assessment_model_inplace(msgs) ==
    [sent |-> <<Turn("system", "You are an AI self-assessment coach. Help users reflect concisely on their work.")>> \o msgs,
     log |-> <<Turn("system", "You are an AI self-assessment coach. Help users reflect concisely on their work.")>> \o msgs]

call_self_assessment_model(msgs) ==
    [sent |-> <<Turn("system", "You are an AI self-assessment coach. Help users reflect concisely on their work.")>> \o msgs,
     log |-> msgs]

(* The hyphen of "learning-facilitator" is U+2011 in the source. *)
(* Faulty variant: the prefix of another mode, as a copied line would have. *)
call_jigsaw_model_wrong_prefix(msgs) ==
    [sent |-> <<Turn("system", "You are an AI self-assessment coach. Help users reflect concisely on their work.")>> \o msgs,
     log |-> msgs]

call_jigsaw_model(msgs) ==
    [sent |-> <<Turn("system", "You are an AI learning-facilitator guiding a Jigsaw cooperative activity.")>> \o msgs,
     log |-> msgs]

call_feedback_on_feedback_model(msgs) ==
    [sent |-> <<Turn("system", "You are an AI reviewer providing meta-feedback on peer feedback quality.")>> \o msgs,
     log |-> msgs]

call_clarification_model(msgs) ==
    [sent |-> <<Turn("system", "You help refine and clarify peer feedback by asking targeted follow-up questions.")>> \o msgs,
     log |-> msgs]

FUNCTION_ROUTES ==
    ("Write-up" :> "call_writeup_model")
    @@ ("Self-assessment" :> "call_self_assessment_model")
    @@ ("Jigsaw/cooperation" :> "call_jigsaw_model")
    @@ ("AI Feedback on feedback" :> "call_feedback_on_feedback_model")
    @@ ("Further Clarification on peer feedback" :> "call_clarification_model")

route_fn(choice, msgs) ==
    CASE FUNCTION_ROUTES[choice] = "call_writeup_model" -> call_writeup_model(msgs)
      [] FUNCTION_ROUTES[choice] = "call_self_assessment_model" -> call_self_assessment_model(msgs)
      [] FUNCTION_ROUTES[choice] = "call_jigsaw_model" -> call_jigsaw_model(msgs)
      [] FUNCTION_ROUTES[choice] = "call_feedback_on_feedback_model" -> call_feedback_on_feedback_model(msgs)
      [] FUNCTION_ROUTES[choice] = "call_clarification_model" -> call_clarification_model(msgs)

(* Faulty variant: no except clause, a failure of the service leaves _chat. *)
_chat_uncaught(key, res) ==
    IF key = ""
    THEN [calls |-> 0, raised |-> FALSE, value |-> MissingKeyWarning]
    ELSE IF res.ok
         THEN [calls |-> 1, raised |-> FALSE, value |-> res.text]
         ELSE [calls |-> 1, raised |-> TRUE, value |-> ""]

(* Faulty variant: a failed call is tried once more. *)
_chat_retry(key, res) ==
    IF key = ""
    THEN [calls |-> 0, raised |-> FALSE, value |-> MissingKeyWarning]
    ELSE IF res.ok
         THEN [calls |-> 1, raised |-> FALSE, value |-> res.text]
         ELSE [calls |-> 2, raised |-> FALSE, value |-> ErrorPrefix \o res.text]

(* _chat: key is openai.api_key, res what ChatCompletion.create does when  *)
(* it is called.  calls counts the calls of create, raised tells whether   *)
(* an exception leaves _chat, value is the string returned.                *)
_chat(key, res) ==
    IF key = ""
    THEN [calls |-> 0, raised |-> FALSE, value |-> MissingKeyWarning]
    ELSE IF res.ok
         THEN [calls |-> 1, raised |-> FALSE, value |-> res.text]
         ELSE [calls |-> 1, raised |-> FALSE, value |-> ErrorPrefix \o res.text]

(* Line 152 and line 163: the two appends of the chat page; line 141: the  *)
(* list Reset stores. *)
append_user(log, text) == Append(log, Turn("user", text))

(* Faulty variant: the reply is stored with the role of line 152. *)
append_reply_as_user(log, reply) == Append(log, Turn("user", reply))

append_reply(log, reply) == Append(log, Turn("assistant", reply))

(* Faulty variant: Reset assigns a local name, the session's list stays. *)
reset_messages_local(log) == log

reset_messages(log) == <<>>

---------------------------------------------------------------------------
(* Widget events *)

Ev(type, text, fn, model, temp) ==
    [type |-> type, text |-> text, fn |-> fn, model |-> model, temp |-> temp]

NoEvent == Ev("none", "", None, "", 0)

NoResult == [ok |-> TRUE, text |-> ""]

AllKeys == {"openai_api_key", "page", "messages", "function_choice",
            "temperature", "model_choice"}

(* Faulty variant: the "not in st.session_state" tests are missing. *)
Default_always(k, present, old, init) == init

Default(k, present, old, init) == IF k \in present THEN old ELSE init

---------------------------------------------------------------------------
Init ==
    /\ secrets \in SecretsChoices
    /\ api_key = ""
    /\ keys = [s \in Sessions |-> {}]
    /\ openai_api_key = [s \in Sessions |-> ""]
    /\ page = [s \in Sessions |-> ""]
    /\ messages = [s \in Sessions |-> <<>>]
    /\ function_choice = [s \in Sessions |-> ""]
    /\ temperature = [s \in Sessions |-> 0]
    /\ model_choice = [s \in Sessions |-> ""]
    /\ api_input = [s \in Sessions |-> ""]
    /\ start_disabled = [s \in Sessions |-> TRUE]
    /\ pc = [s \in Sessions |-> "rerun"]
    /\ event = [s \in Sessions |-> NoEvent]
    /\ sent = [s \in Sessions |-> <<>>]
    /\ used_key = [s \in Sessions |-> ""]
    /\ api_calls = [s \in Sessions |-> 0]
    /\ result = [s \in Sessions |-> NoResult]
    /\ after_reset = [s \in Sessions |-> "no"]
    /\ prev_choice = [s \in Sessions |-> None]

(* Lines 1-97 of one script run of session s serving event ev: the widget  *)
(* values the browser sent are in place, then API-key handling and the     *)
(* initialisation of the session state.                                    *)
ScriptTop(s, ev) ==
    LET input == CASE ev.type = "paste" -> ev.text
                   [] ev.type = "clear" -> ""
                   [] OTHER -> api_input[s]
        fromSecrets == IF "OPENAI_API_KEY" \in DOMAIN secrets
                       THEN secrets["OPENAI_API_KEY"]
                       ELSE api_key
    IN  /\ api_input' = [api_input EXCEPT ![s] = input]
        /\ api_key' = IF input # "" THEN input ELSE fromSecrets
        /\ openai_api_key' = [openai_api_key EXCEPT ![s] =
              IF input # "" THEN input
              ELSE Default("openai_api_key", keys[s], @, "")]
        /\ page' = [page EXCEPT ![s] = Default("page", keys[s], @, "selector")]
        /\ messages' = [messages EXCEPT ![s] = Default("messages", keys[s], @, <<>>)]
        /\ function_choice' = [function_choice EXCEPT ![s] =
              Default("function_choice", keys[s], @, None)]
        /\ temperature' = [temperature EXCEPT ![s] =
              IF ev.type = "temperature" THEN ev.temp
              ELSE Default("temperature", keys[s], @, DefaultTemperature)]
        /\ model_choice' = [model_choice EXCEPT ![s] =
              IF ev.type = "model" THEN ev.model
              ELSE Default("model_choice", keys[s], @, AVAILABLE_MODELS[1])]
        /\ keys' = [keys EXCEPT ![s] = AllKeys]
        /\ event' = [event EXCEPT ![s] = ev]
        /\ pc' = [pc EXCEPT ![s] = "page"]
        /\ sent' = [sent EXCEPT ![s] = <<>>]
        /\ used_key' = [used_key EXCEPT ![s] = ""]
        /\ api_calls' = [api_calls EXCEPT ![s] = 0]
        /\ result' = [result EXCEPT ![s] = NoResult]
        /\ prev_choice' = [prev_choice EXCEPT ![s] = None]
        /\ UNCHANGED <<secrets, start_disabled, after_reset>>

(* A script run queued by the framework: the first run of a new session,   *)
(* or the run _trigger_rerun asks for. *)
Rerun(s) ==
    /\ pc[s] = "rerun"
    /\ ScriptTop(s, NoEvent)

(* Any event that changes no session state: a selector-screen widget, or   *)
(* the browser's rerun command. *)
Interact(s) ==
    /\ pc[s] = "idle"
    /\ ScriptTop(s, NoEvent)

PasteKey(s, k) ==
    /\ pc[s] = "idle"
    /\ k # ""
    /\ k # api_input[s]
    /\ ScriptTop(s, Ev("paste", k, None, "", 0))

ClearKey(s) ==
    /\ pc[s] = "idle"
    /\ api_input[s] # ""
    /\ ScriptTop(s, Ev("clear", "", None, "", 0))

(* Faulty variant: the Start button is rendered without disabled=. *)
PressStart_enabled(s, f, m, t) ==
    /\ pc[s] = "idle"
    /\ page[s] = "selector"
    /\ f \in DOMAIN FUNCTION_ROUTES
    /\ m \in ModelOptions
    /\ t \in SliderValues
    /\ ScriptTop(s, Ev("start", "", f, m, t))

PressStart(s, f, m, t) ==
    /\ pc[s] = "idle"
    /\ page[s] = "selector"
    /\ ~start_disabled[s]
    /\ f \in DOMAIN FUNCTION_ROUTES
    /\ m \in ModelOptions
    /\ t \in SliderValues
    /\ ScriptTop(s, Ev("start", "", f, m, t))

ChangeModel(s, m) ==
    /\ pc[s] = "idle"
    /\ page[s] = "chat"
    /\ m \in ModelOptions
    /\ m # model_choice[s]
    /\ ScriptTop(s, Ev("model", "", None, m, 0))

ChangeTemperature(s, t) ==
    /\ pc[s] = "idle"
    /\ page[s] = "chat"
    /\ t \in SliderValues
    /\ t # temperature[s]
    /\ ScriptTop(s, Ev("temperature", "", None, "", t))

PressReset(s) ==
    /\ pc[s] = "idle"
    /\ page[s] = "chat"
    /\ ScriptTop(s, Ev("reset", "", None, "", 0))

SendMessage(s, text) ==
    /\ pc[s] = "idle"
    /\ page[s] = "chat"
    /\ text # ""
    /\ Len(messages[s]) < 2 * MaxExchanges
    /\ ScriptTop(s, Ev("submit", text, None, "", 0))

PressBack(s) ==
    /\ pc[s] = "idle"
    /\ page[s] = "chat"
    /\ ScriptTop(s, Ev("back", "", None, "", 0))

---------------------------------------------------------------------------
(* The page sections of a script run *)

(* Lines 110-129 when Start is not pressed. *)
SelectorPage(s) ==
    /\ pc[s] = "page"
    /\ page[s] = "selector"
    /\ event[s].type # "start"
    /\ start_disabled' = [start_disabled EXCEPT ![s] = (api_key = "")]
    /\ pc' = [pc EXCEPT ![s] = "idle"]
    /\ UNCHANGED <<secrets, api_key, session_vars, api_input, event,
                   history_vars, after_reset, prev_choice>>

(* Faulty variant: Start does not store the chosen mode. *)
Start_keeps_choice(s) ==
    /\ pc[s] = "page"
    /\ page[s] = "selector"
    /\ event[s].type = "start"
    /\ start_disabled' = [start_disabled EXCEPT ![s] = (api_key = "")]
    /\ model_choice' = [model_choice EXCEPT ![s] = event[s].model]
    /\ temperature' = [temperature EXCEPT ![s] = event[s].temp]
    /\ page' = [page EXCEPT ![s] = "chat"]
    /\ prev_choice' = [prev_choice EXCEPT ![s] = function_choice[s]]
    /\ pc' = [pc EXCEPT ![s] = "rerun"]
    /\ UNCHANGED <<secrets, api_key, keys, openai_api_key, messages,
                   function_choice, api_input, event, history_vars,
                   after_reset>>

(* Lines 110-126 when Start is pressed. *)
Start(s) ==
    /\ pc[s] = "page"
    /\ page[s] = "selector"
    /\ event[s].type = "start"
    /\ start_disabled' = [start_disabled EXCEPT ![s] = (api_key = "")]
    /\ function_choice' = [function_choice EXCEPT ![s] = event[s].fn]
    /\ model_choice' = [model_choice EXCEPT ![s] = event[s].model]
    /\ temperature' = [temperature EXCEPT ![s] = event[s].temp]
    /\ page' = [page EXCEPT ![s] = "chat"]
    /\ prev_choice' = [prev_choice EXCEPT ![s] = function_choice[s]]
    /\ pc' = [pc EXCEPT ![s] = "rerun"]
    /\ UNCHANGED <<secrets, api_key, keys, openai_api_key, messages,
                   api_input, event, history_vars, after_reset>>

(* Lines 134-170 when no button is pressed and nothing is submitted. *)
ChatPage(s) ==
    /\ pc[s] = "page"
    /\ page[s] = "chat"
    /\ event[s].type \notin {"reset", "submit", "back"}
    /\ pc' = [pc EXCEPT ![s] = "idle"]
    /\ UNCHANGED <<secrets, api_key, session_vars, api_input, start_disabled,
                   event, history_vars, after_reset, prev_choice>>

(* Lines 140-141, then the rest of the chat page with no submission. *)
Reset(s) ==
    /\ pc[s] = "page"
    /\ page[s] = "chat"
    /\ event[s].type = "reset"
    /\ messages' = [messages EXCEPT ![s] = reset_messages(@)]
    /\ after_reset' = [after_reset EXCEPT ![s] =
          IF messages[s] # <<>> \/ @ = "cleared" THEN "cleared" ELSE "empty"]
    /\ pc' = [pc EXCEPT ![s] = "idle"]
    /\ UNCHANGED <<secrets, api_key, keys, openai_api_key, page,
                   function_choice, temperature, model_choice, api_input,
                   start_disabled, event, history_vars, prev_choice>>

(* Lines 150-161 up to the point where _chat has read openai.api_key: the  *)
(* user turn is appended, the route function builds the list, and either   *)
(* the request is issued or, with no key, the warning comes back at once   *)
(* and is appended (line 163). *)
Submit(s) ==
    /\ pc[s] = "page"
    /\ page[s] = "chat"
    /\ event[s].type = "submit"
    /\ LET r == route_fn(function_choice[s],
                         append_user(messages[s], event[s].text))
           c == _chat(api_key, NoResult)
       IN  /\ sent' = [sent EXCEPT ![s] = r.sent]
           /\ used_key' = [used_key EXCEPT ![s] = api_key]
           /\ IF api_key = ""
              THEN /\ messages' = [messages EXCEPT ![s] =
                         append_reply(r.log, c.value)]
                   /\ api_calls' = [api_calls EXCEPT ![s] = @ + c.calls]
                   /\ after_reset' = [after_reset EXCEPT ![s] = "no"]
                   /\ pc' = [pc EXCEPT ![s] = "idle"]
              ELSE /\ messages' = [messages EXCEPT ![s] = r.log]
                   /\ pc' = [pc EXCEPT ![s] = "call"]
                   /\ UNCHANGED <<api_calls, after_reset>>
    /\ UNCHANGED <<secrets, api_key, keys, openai_api_key, page,
                   function_choice, temperature, model_choice, api_input,
                   start_disabled, event, result, prev_choice>>

(* Lines 67-74 and 163-165: the external service answers or fails, _chat   *)
(* returns, the reply is appended.  An exception that leaves _chat ends    *)
(* the script run before line 163. *)
ChatReturn(s, res) ==
    /\ pc[s] = "call"
    /\ LET c == _chat(used_key[s], res)
       IN  /\ result' = [result EXCEPT ![s] = res]
           /\ api_calls' = [api_calls EXCEPT ![s] = @ + c.calls]
           /\ messages' = [messages EXCEPT ![s] =
                 IF c.raised THEN @ ELSE append_reply(@, c.value)]
    /\ after_reset' = [after_reset EXCEPT ![s] = "no"]
    /\ pc' = [pc EXCEPT ![s] = "idle"]
    /\ UNCHANGED <<secrets, api_key, keys, openai_api_key, page,
                   function_choice, temperature, model_choice, api_input,
                   start_disabled, event, sent, used_key, prev_choice>>

(* Lines 167-170 when Back is pressed. *)
Back(s) ==
    /\ pc[s] = "page"
    /\ page[s] = "chat"
    /\ event[s].type = "back"
    /\ page' = [page EXCEPT ![s] = "selector"]
    /\ pc' = [pc EXCEPT ![s] = "rerun"]
    /\ UNCHANGED <<secrets, api_key, keys, openai_api_key, messages,
                   function_choice, temperature, model_choice, api_input,
                   start_disabled, event, history_vars, after_reset,
                   prev_choice>>

---------------------------------------------------------------------------
Next ==
    \E s \in Users :
        \/ Rerun(s)
        \/ Interact(s)
        \/ PasteKey(s, PastedKey(s))
        \/ ClearKey(s)
        \/ \E f \in DOMAIN FUNCTION_ROUTES, m \in ModelOptions, t \in TempInputs :
              PressStart(s, f, m, t)
        \/ \E m \in ModelOptions : ChangeModel(s, m)
        \/ \E t \in TempInputs : ChangeTemperature(s, t)
        \/ PressReset(s)
        \/ \E text \in Texts : SendMessage(s, text)
        \/ PressBack(s)
        \/ SelectorPage(s)
        \/ Start(s)
        \/ ChatPage(s)
        \/ Reset(s)
        \/ Submit(s)
        \/ \E res \in Results : ChatReturn(s, res)
        \/ Back(s)

Spec == Init /\ [][Next]_vars

(* Two browser sessions served by one process, with one mode, one text and *)
(* one answer of the service each. *)
MultiModes == {"Self-assessment"}

MultiTexts == {"Thanks!"}

MultiResults == {[ok |-> TRUE, text |-> "Here is my feedback."]}

MultiTemps == {100}

NextMulti ==
    \E s \in Sessions :
        \/ Rerun(s)
        \/ Interact(s)
        \/ PasteKey(s, PastedKey(s))
        \/ ClearKey(s)
        \/ \E f \in MultiModes, t \in MultiTemps :
              PressStart(s, f, AVAILABLE_MODELS[1], t)
        \/ PressReset(s)
        \/ \E text \in MultiTexts : SendMessage(s, text)
        \/ PressBack(s)
        \/ SelectorPage(s)
        \/ Start(s)
        \/ ChatPage(s)
        \/ Reset(s)
        \/ Submit(s)
        \/ \E res \in MultiResults : ChatReturn(s, res)
        \/ Back(s)

SpecMulti == Init /\ [][NextMulti]_vars

---------------------------------------------------------------------------
(* Vocabulary of the properties *)

Last(q) == q[Len(q)]

Front(q) == SubSeq(q, 1, Len(q) - 1)

(* The fixed prompt of each mode, as the routing table is documented. *)
PromptOf(mode) ==
    CASE mode = "Self-assessment" ->
           "You are an AI self-assessment coach. Help users reflect concisely on their work."
      [] mode = "Jigsaw/cooperation" ->
           "You are an AI learning-facilitator guiding a Jigsaw cooperative activity."
      [] mode = "AI Feedback on feedback" ->
           "You are an AI reviewer providing meta-feedback on peer feedback quality."
      [] mode = "Further Clarification on peer feedback" ->
           "You help refine and clarify peer feedback by asking targeted follow-up questions."

SystemTurns(mode) ==
    IF mode = "Write-up" THEN <<>> ELSE <<Turn("system", PromptOf(mode))>>

NumSystem(q) == Cardinality({i \in DOMAIN q : q[i].role = "system"})

(* The log as it was when the route function was called in the current run. *)
LogAtCall(s) == IF pc[s] = "call" THEN messages[s] ELSE Front(messages[s])

Alternates(q) ==
    \A i \in DOMAIN q : q[i].role = (IF i % 2 = 1 THEN "user" ELSE "assistant")

Replied(s) == pc[s] = "idle" /\ event[s].type = "submit"

---------------------------------------------------------------------------
(* C1: whenever a message is submitted under mode X, the list handed to    *)
(* _chat is the one system message with the prompt of X (none for          *)
(* "Write-up") followed by the whole conversation log, which ends with the *)
(* new user turn; the prompt is the one of the session's current mode.     *)
C1_RoutedMessages ==
    \A s \in Sessions :
        sent[s] # <<>> =>
            /\ function_choice[s] \in DOMAIN FUNCTION_ROUTES
            /\ sent[s] = SystemTurns(function_choice[s]) \o LogAtCall(s)
            /\ Last(sent[s]) = Turn("user", event[s].text)

C1_Witness ==
    /\ pc["A"] = "call"
    /\ function_choice["A"] = "Jigsaw/cooperation"
    /\ Len(sent["A"]) = 4

(* C2: a submission appends the user turn with the submitted text before   *)
(* the route function is called and then the assistant turn with the reply *)
(* that came back; outside a pending call the log has even length and      *)
(* alternates user, assistant from a user turn on.                         *)
C2_TwoTurnsPerSubmission ==
    /\ [](\A s \in Sessions :
              /\ pc[s] # "call" => Len(messages[s]) % 2 = 0 /\ Alternates(messages[s])
              /\ pc[s] = "call" =>
                    /\ Len(messages[s]) % 2 = 1 /\ Alternates(messages[s])
                    /\ Last(messages[s]) = Turn("user", event[s].text)
                    /\ Last(sent[s]) = Turn("user", event[s].text))
    /\ [][\A s \in Sessions :
              /\ (pc[s] = "page" /\ event[s].type = "submit" /\ pc'[s] = "call") =>
                    messages'[s] = Append(messages[s], Turn("user", event[s].text))
              /\ (pc[s] = "call" /\ pc'[s] = "idle") =>
                    messages'[s] = Append(messages[s],
                        Turn("assistant", _chat(used_key[s], result'[s]).value))]_vars

C2_Witness ==
    /\ Replied("A")
    /\ Len(messages["A"]) = 4
    /\ messages["A"][3] = Turn("user", event["A"].text)

(* C3: when the external call raises, _chat returns the formatted error    *)
(* string, the chat screen appends it as the assistant turn after the user *)
(* turn of the submission, and the call leaves page, mode, model and       *)
(* temperature as they were.                                               *)
C3_ErrorSurfaced ==
    /\ [](\A s \in Sessions :
              (Replied(s) /\ ~result[s].ok) =>
                  /\ Len(messages[s]) >= 2
                  /\ Last(messages[s]) =
                        Turn("assistant", ErrorPrefix \o result[s].text)
                  /\ Last(Front(messages[s])) = Turn("user", event[s].text))
    /\ [][\A s \in Sessions :
              pc[s] = "call" =>
                  /\ page'[s] = page[s]
                  /\ function_choice'[s] = function_choice[s]
                  /\ model_choice'[s] = model_choice[s]
                  /\ temperature'[s] = temperature[s]]_vars

C3_Witness ==
    /\ Replied("A")
    /\ ~result["A"].ok
    /\ Last(messages["A"]).content = "[warning] Error querying OpenAI: Rate limit reached"

(* C4: a key pasted in one session stays in that session: it is never the  *)
(* key of an API call of another session, and it never enables the Start   *)
(* button of a session that has no key of its own when the deployer        *)
(* configured none.                                                        *)
C4_KeyStaysInSession ==
    \A s \in Sessions :
        /\ \A o \in Sessions \ {s} :
              openai_api_key[o] # "" => used_key[s] # openai_api_key[o]
        /\ (keys[s] # {} /\ ~start_disabled[s]) =>
              (openai_api_key[s] # "" \/ "OPENAI_API_KEY" \in DOMAIN secrets)

C6_OneCallPerSubmission ==
    \A s \in Sessions :
        /\ api_calls[s] \in {0, 1}
        /\ event[s].type # "submit" => api_calls[s] = 0
        /\ pc[s] # "idle" => api_calls[s] = 0
        /\ Replied(s) => api_calls[s] = (IF used_key[s] # "" THEN 1 ELSE 0)

C6_Witness ==
    /\ Replied("A")
    /\ ~result["A"].ok
    /\ api_calls["A"] = 1
    /\ Len(messages["A"]) = 4

(* C7: the log holds user and assistant turns only, a call of a route      *)
(* function leaves the log as it was, and the list sent holds exactly one  *)
(* system message (none for "Write-up") whatever the length of the log.    *)
C7_PromptNotStored ==
    \A s \in Sessions :
        /\ \A i \in DOMAIN messages[s] : messages[s][i].role \in {"user", "assistant"}
        /\ sent[s] # <<>> =>
              /\ NumSystem(sent[s]) = (IF function_choice[s] = "Write-up" THEN 0 ELSE 1)
              /\ Len(LogAtCall(s)) = Len(sent[s]) - NumSystem(sent[s])
              /\ \A i \in DOMAIN LogAtCall(s) :
                    LogAtCall(s)[i] = sent[s][i + NumSystem(sent[s])]

C7_Witness ==
    /\ pc["A"] = "call"
    /\ function_choice["A"] = "Self-assessment"
    /\ Len(sent["A"]) = 4
    /\ NumSystem(sent["A"]) = 1

(* C8: Reset leaves the log empty and page ("chat"), mode, model,          *)
(* temperature and the stored key as they were; the first message          *)
(* submitted after a Reset is sent with that message alone after the       *)
(* mode's system prompt.                                                   *)
C8_ResetClearsLogOnly ==
    /\ [](\A s \in Sessions :
              (after_reset[s] # "no" /\ sent[s] # <<>>) =>
                  sent[s] = SystemTurns(function_choice[s])
                                \o <<Turn("user", event[s].text)>>)
    /\ [][\A s \in Sessions :
              (\/ pc[s] = "idle" /\ pc'[s] = "page" /\ event'[s].type = "reset"
               \/ pc[s] = "page" /\ event[s].type = "reset" /\ pc'[s] # "page") =>
                  /\ messages'[s] = (IF pc[s] = "page" THEN <<>> ELSE messages[s])
                  /\ page[s] = "chat" /\ page'[s] = "chat"
                  /\ function_choice'[s] = function_choice[s]
                  /\ model_choice'[s] = model_choice[s]
                  /\ temperature'[s] = temperature[s]
                  /\ openai_api_key'[s] = openai_api_key[s]]_vars

C8_Witness ==
    /\ after_reset["A"] = "cleared"
    /\ pc["A"] = "call"
    /\ function_choice["A"] = "AI Feedback on feedback"
    /\ Len(sent["A"]) = 2

(* C9: only a submission (append) and Reset (clear) change the log; the    *)
(* initialisation at the top of a run keeps what the session holds, and    *)
(* Start and Back keep the log, so turns exchanged under one mode are      *)
(* still there after Back and Start with another mode.                     *)
C9_LogChangedBySubmitAndReset ==
    [][\A s \in Sessions :
          /\ messages'[s] # messages[s] =>
                \/ pc[s] = "call"
                \/ pc[s] = "page" /\ event[s].type = "submit"
                      /\ Len(messages'[s]) > Len(messages[s])
                \/ pc[s] = "page" /\ event[s].type = "reset" /\ messages'[s] = <<>>
          /\ (keys[s] # {} /\ pc[s] \in {"idle", "rerun"}) =>
                /\ page'[s] = page[s]
                /\ function_choice'[s] = function_choice[s]]_vars

C9_Witness ==
    /\ pc["A"] = "rerun"
    /\ event["A"].type = "start"
    /\ Len(messages["A"]) = 4
    /\ prev_choice["A"] \in DOMAIN FUNCTION_ROUTES
    /\ prev_choice["A"] # function_choice["A"]

(* C10: once the session state is initialised, page is "selector" or       *)
(* "chat", the model is one of AVAILABLE_MODELS, the temperature lies in   *)
(* [0.0, 1.0], on the chat page the mode is a key of FUNCTION_ROUTES, and  *)
(* as long as no mode was ever stored the session holds its initial        *)
(* values: selector page, empty log, first model, temperature 0.7.         *)
C10_SessionStateWellFormed ==
    \A s \in Sessions :
        keys[s] # {} =>
            /\ page[s] \in {"selector", "chat"}
            /\ model_choice[s] \in ModelOptions
            /\ \E i \in DOMAIN AVAILABLE_MODELS : AVAILABLE_MODELS[i] = model_choice[s]
            /\ temperature[s] \in SliderMin..SliderMax
            /\ page[s] = "chat" => function_choice[s] \in DOMAIN FUNCTION_ROUTES
            /\ function_choice[s] \notin DOMAIN FUNCTION_ROUTES =>
                  /\ function_choice[s] = None
                  /\ page[s] = "selector"
                  /\ messages[s] = <<>>
                  /\ model_choice[s] = AVAILABLE_MODELS[1]
                  /\ temperature[s] = 70

C10_Witness ==
    /\ page["A"] = "chat"
    /\ pc["A"] = "idle"
    /\ function_choice["A"] = "Further Clarification on peer feedback"
    /\ model_choice["A"] = "gpt-3.5-turbo-0125"
    /\ temperature["A"] = 100

====
